---- MODULE Spec2Model ----
(***************************************************************************)
(* Model of BetterEmojiPicker/Scripts/build_emoji_data.py: the download,   *)
(* transform (build_emoji_list) and write steps of main.                   *)
(*                                                                         *)
(* Representation.  A Python str is a sequence of one-character strings    *)
(* ("1F600" is <<"1","F","6","0","0">>), so that split, substring search,  *)
(* lower, replace, startswith and int(.., 16) are computed character by    *)
(* character.  A decoded emoji (the result of "".join(chr(..))) is the     *)
(* sequence of its code points (<<128512>>).  A Python dict is a function  *)
(* whose DOMAIN is its key set; dict.get(k, d) is Get(d, k, default).      *)
(*                                                                         *)
(* json.loads can return a value of another type than the documented one   *)
(* at any place of a document.  Such a value is written in the form of the *)
(* place it stands in, marked by the name of its Python type:              *)
(*   where a str is documented       <<"NoneType">> for null, <<"list">>   *)
(*                                   for [] (a mark is no character)       *)
(*   where an entry is documented    [__class__ |-> "int"] for a number    *)
(*   where the emojilib object is    a function on the key NoGlyph, which  *)
(*   documented                      is no str, for a list                 *)
(***************************************************************************)
EXTENDS Integers, Sequences, FiniteSets, TLC

VARIABLES pc, raw_data, emojilib_data, idx, emojis, seen_emojis, origin,
          fetches, output_file

vars == <<pc, raw_data, emojilib_data, idx, emojis, seen_emojis, origin,
          fetches, output_file>>

(***************************************************************************)
(* Bounds and program constants                                            *)
(***************************************************************************)
\* longest primary source (raw_data) the model downloads
MaxEntries == 2

\* chr() accepts 0 .. 0x10FFFF
MaxCodePoint == 1114111

\* entry.get("sort_order", 9999)
DefaultSortOrder == 9999

(***************************************************************************)
(* Python str and dict primitives                                          *)
(***************************************************************************)
Get(d, k, default) == IF k \in DOMAIN d THEN d[k] ELSE default

Range(s) == {s[i] : i \in 1..Len(s)}

\* the Python types, other than str, of the values that stand where a str is
\* documented
NonStrTypes == {"NoneType", "list"}

\* json.loads of null, where a str is documented
None == <<"NoneType">>

\* json.loads of [], where a str is documented
EmptyList == <<"list">>

\* type(v).__name__ of a value that stands where a str is documented
TypeName(v) == IF v = <<>> THEN "str"
               ELSE IF v[1] \in NonStrTypes THEN v[1] ELSE "str"

\* v is a str: v.lower(), v.split(..) and the like do not raise AttributeError
IsStr(v) == TypeName(v) = "str"

\* entry is a dict: entry.get(..) does not raise AttributeError
IsDict(entry) == "__class__" \notin DOMAIN entry

\* the key that marks an emojilib document that is a list
NoGlyph == <<0 - 1>>

\* emojilib_data is a dict: emojilib_data.get(..) does not raise AttributeError
IsMapping(emojilib) == NoGlyph \notin DOMAIN emojilib

\* The characters a module can hold are U+0000 .. U+00FF; the primitives
\* below follow Python on all of them.  In that range str.lower() changes
\* A..Z and the Latin-1 capitals (all but the multiplication sign), one
\* character for one character.
UpperLetters ==
    <<"A","B","C","D","E","F","G","H","I","J","K","L","M","N",
      "O","P","Q","R","S","T","U","V","W","X","Y","Z","À","Á",
      "Â","Ã","Ä","Å","Æ","Ç","È","É","Ê","Ë","Ì","Í","Î","Ï",
      "Ð","Ñ","Ò","Ó","Ô","Õ","Ö","Ø","Ù","Ú","Û","Ü","Ý","Þ">>

LowerLetters ==
    <<"a","b","c","d","e","f","g","h","i","j","k","l","m","n",
      "o","p","q","r","s","t","u","v","w","x","y","z","à","á",
      "â","ã","ä","å","æ","ç","è","é","ê","ë","ì","í","î","ï",
      "ð","ñ","ò","ó","ô","õ","ö","ø","ù","ú","û","ü","ý","þ">>

\* str.lower() on the letters it changes
LowerTable ==
    [c \in Range(UpperLetters) |->
        LowerLetters[CHOOSE i \in 1..Len(UpperLetters) : UpperLetters[i] = c]]

\* str.lower() on one character
LowerChar(c) == IF c \in DOMAIN LowerTable THEN LowerTable[c] ELSE c

\* s.lower()
Lower(s) == [i \in 1..Len(s) |-> LowerChar(s[i])]

\* s.replace("_", " ")
ReplaceUnderscore(s) == [i \in 1..Len(s) |-> IF s[i] = "_" THEN " " ELSE s[i]]

\* kw.lower().replace("_", " ")
Clean(kw) == ReplaceUnderscore(Lower(kw))

\* s.startswith(c) for a one-character prefix
StartsWith(s, c) == Len(s) >= 1 /\ s[1] = c

\* sub in s
Contains(s, sub) ==
    \E i \in 1..(Len(s) - Len(sub) + 1) : SubSeq(s, i, i + Len(sub) - 1) = sub

\* s.split("-")
RECURSIVE Split(_)
Split(s) ==
    IF \A i \in 1..Len(s) : s[i] # "-"
    THEN <<s>>
    ELSE LET k == CHOOSE i \in 1..Len(s) :
                      s[i] = "-" /\ \A j \in 1..(i-1) : s[j] # "-"
         IN  <<SubSeq(s, 1, k - 1)>> \o Split(SubSeq(s, k + 1, Len(s)))

(***************************************************************************)
(* int(cp, 16) and chr(..)                                                 *)
(***************************************************************************)
\* the characters int() strips: tab, line feed, vertical tab, form feed,
\* carriage return, space, next line (U+0085), no-break space (U+00A0)
WhiteSpace == {"\t", "\n", "", "\f", "\r", " ", "", " "}

\* the value of each hexadecimal digit (up to U+00FF the ASCII digits are
\* the only decimal digits)
HexDigits ==
    [c \in {"0","1","2","3","4","5","6","7","8","9",
            "a","b","c","d","e","f","A","B","C","D","E","F"} |->
        CASE c = "0" -> 0 [] c = "1" -> 1 [] c = "2" -> 2 [] c = "3" -> 3
          [] c = "4" -> 4 [] c = "5" -> 5 [] c = "6" -> 6 [] c = "7" -> 7
          [] c = "8" -> 8 [] c = "9" -> 9
          [] c \in {"a", "A"} -> 10 [] c \in {"b", "B"} -> 11
          [] c \in {"c", "C"} -> 12 [] c \in {"d", "D"} -> 13
          [] c \in {"e", "E"} -> 14 [] c \in {"f", "F"} -> 15]

IsHexDigit(c) == c \in DOMAIN HexDigits

DigitValue(c) == HexDigits[c]

\* leading and trailing whitespace removed
Strip(s) ==
    IF \A i \in 1..Len(s) : s[i] \in WhiteSpace
    THEN <<>>
    ELSE LET a == CHOOSE i \in 1..Len(s) :
                      s[i] \notin WhiteSpace /\ \A j \in 1..(i-1) : s[j] \in WhiteSpace
             b == CHOOSE i \in 1..Len(s) :
                      s[i] \notin WhiteSpace /\ \A j \in (i+1)..Len(s) : s[j] \in WhiteSpace
         IN  SubSeq(s, a, b)

\* an optional sign, then the rest
Unsigned(s) == IF StartsWith(s, "+") \/ StartsWith(s, "-") THEN Tail(s) ELSE s

\* an optional 0x / 0X prefix, after which one underscore is allowed
Unprefixed(s) ==
    IF Len(s) >= 2 /\ s[1] = "0" /\ s[2] \in {"x", "X"}
    THEN LET r == SubSeq(s, 3, Len(s))
         IN  IF StartsWith(r, "_") THEN Tail(r) ELSE r
    ELSE s

\* digits, with single underscores between digits only
IsDigitRun(b) ==
    /\ Len(b) >= 1
    /\ IsHexDigit(b[1])
    /\ IsHexDigit(b[Len(b)])
    /\ \A i \in 1..Len(b) :
          \/ IsHexDigit(b[i])
          \/ b[i] = "_" /\ i > 1 /\ b[i-1] # "_"

\* the value of a digit run; every value above MaxCodePoint is reported as
\* MaxCodePoint + 1 (chr rejects them all alike)
RECURSIVE DigitRunValue(_)
DigitRunValue(b) ==
    IF b = <<>> THEN 0
    ELSE LET front == SubSeq(b, 1, Len(b) - 1)
             last  == b[Len(b)]
             v     == DigitRunValue(front)
         IN  IF last = "_" THEN v
             ELSE IF v > MaxCodePoint THEN MaxCodePoint + 1
             ELSE IF 16 * v + DigitValue(last) > MaxCodePoint THEN MaxCodePoint + 1
             ELSE 16 * v + DigitValue(last)

\* int(cp, 16) raises ValueError
IntRaises(cp) == ~IsDigitRun(Unprefixed(Unsigned(Strip(cp))))

\* int(cp, 16), when it does not raise
IntBase16(cp) ==
    LET s == Strip(cp)
        v == DigitRunValue(Unprefixed(Unsigned(s)))
    IN  IF StartsWith(s, "-") THEN 0 - v ELSE v

\* chr(n) raises ValueError (OverflowError for a huge n; both are caught)
ChrRaises(n) == n < 0 \/ n > MaxCodePoint

(***************************************************************************)
(* hex_to_emoji                                                            *)
(***************************************************************************)
\* hex_to_emoji(unified) raises ValueError or OverflowError
HexToEmojiRaises(unified) ==
    \E cp \in Range(Split(unified)) :
        IF IntRaises(cp) THEN TRUE ELSE ChrRaises(IntBase16(cp))

\* hex_to_emoji(unified): the code points of the joined characters
HexToEmoji(unified) ==
    LET codepoints == Split(unified)
    IN  [i \in 1..Len(codepoints) |-> IntBase16(codepoints[i])]

(***************************************************************************)
(* build_emoji_list: the per-entry tests and the keyword merge             *)
(***************************************************************************)
\* variant: the flag defaults to True
HasImgApple_DefaultTrue(entry) == Get(entry, "has_img_apple", TRUE)

\* entry.get("has_img_apple", False)
HasImgApple(entry) == Get(entry, "has_img_apple", FALSE)

\* entry.get("unified", "")
Unified(entry) == Get(entry, "unified", <<>>)

\* ["1F3FB", "1F3FC", "1F3FD", "1F3FE", "1F3FF"]
SkinToneModifiers ==
    { <<"1","F","3","F","B">>,
      <<"1","F","3","F","C">>,
      <<"1","F","3","F","D">>,
      <<"1","F","3","F","E">>,
      <<"1","F","3","F","F">> }

\* mod in unified raises TypeError: unified is neither a str nor a container
SkinToneTestRaises(unified) == TypeName(unified) = "NoneType"

\* any(mod in unified for mod in [...]), when it does not raise; no mod is
\* an element of the list []
HasSkinToneModifier(unified) ==
    /\ IsStr(unified)
    /\ \E mod \in SkinToneModifiers : Contains(unified, mod)

\* unified.split("-") raises AttributeError, which line 110 does not catch
SplitRaises(unified) == ~IsStr(unified)

\* kw.startswith(":") or kw.startswith(";")
IsEmoticon(kw) == StartsWith(kw, ":") \/ StartsWith(kw, ";")

\* all_keywords = [], seen_keywords = set()
NoKeywords == [all_keywords |-> <<>>, seen_keywords |-> {}]

\* all_keywords.append(kw_clean); seen_keywords.add(kw_clean)
AddKeyword(acc, kw_clean) ==
    [all_keywords  |-> Append(acc.all_keywords, kw_clean),
     seen_keywords |-> acc.seen_keywords \cup {kw_clean}]

\* for kw in short_names: ...
RECURSIVE ShortNamesLoop(_, _)
ShortNamesLoop(acc, kws) ==
    IF kws = <<>> THEN acc
    ELSE LET kw_clean == Clean(Head(kws))
         IN  ShortNamesLoop(IF kw_clean \notin acc.seen_keywords
                            THEN AddKeyword(acc, kw_clean)
                            ELSE acc,
                            Tail(kws))

\* variant: the first emojilib entry is kept
EmojilibTail_KeepFirst(emojilib_keywords) == emojilib_keywords

\* emojilib_keywords[1:] if len(emojilib_keywords) > 1 else []
EmojilibTail(emojilib_keywords) ==
    IF Len(emojilib_keywords) > 1 THEN Tail(emojilib_keywords) ELSE <<>>

\* for kw in emojilib_keywords[1:] ...: ...
RECURSIVE EmojilibLoop(_, _)
EmojilibLoop(acc, kws) ==
    IF kws = <<>> THEN acc
    ELSE LET kw       == Head(kws)
             kw_clean == Clean(kw)
         IN  EmojilibLoop(IF kw_clean \notin acc.seen_keywords /\ ~IsEmoticon(kw)
                          THEN AddKeyword(acc, kw_clean)
                          ELSE acc,
                          Tail(kws))

\* for kw in short_names: kw.lower() raises AttributeError
ShortNamesLoopRaises(short_names) == \E kw \in Range(short_names) : ~IsStr(kw)

\* for kw in emojilib_keywords[1:] ...: kw.lower() raises AttributeError
EmojilibLoopRaises(emojilib_keywords) ==
    \E kw \in Range(EmojilibTail(emojilib_keywords)) : ~IsStr(kw)

\* entry.get("name", "").lower() raises AttributeError
NameRaises(entry) == ~IsStr(Get(entry, "name", <<>>))

\* the all_keywords list built for one entry
MergeKeywords(short_names, emojilib_keywords) ==
    EmojilibLoop(ShortNamesLoop(NoKeywords, short_names),
                 EmojilibTail(emojilib_keywords)).all_keywords

\* the category default "Other" (a category is copied, never inspected, so it
\* is kept as an opaque string)
DefaultCategory == "Other"

\* variant: a missing category or sort_order is left empty instead of defaulted
EmojiEntry_NoDefaults(entry, emoji_char, emojilib) ==
    [emoji     |-> emoji_char,
     name      |-> Lower(Get(entry, "name", <<>>)),
     keywords  |-> MergeKeywords(Get(entry, "short_names", <<>>),
                                 Get(emojilib, emoji_char, <<>>)),
     category  |-> Get(entry, "category", ""),
     sortOrder |-> Get(entry, "sort_order", 0)]

\* emoji_entry = {...}
EmojiEntry(entry, emoji_char, emojilib) ==
    [emoji     |-> emoji_char,
     name      |-> Lower(Get(entry, "name", <<>>)),
     keywords  |-> MergeKeywords(Get(entry, "short_names", <<>>),
                                 Get(emojilib, emoji_char, <<>>)),
     category  |-> Get(entry, "category", DefaultCategory),
     sortOrder |-> Get(entry, "sort_order", DefaultSortOrder)]

\* variant: the entry is inserted in sortOrder position (a sorted output)
AppendEntry_Sorted(list, emoji_entry) ==
    LET before == SelectSeq(list, LAMBDA e : e.sortOrder <= emoji_entry.sortOrder)
        after  == SelectSeq(list, LAMBDA e : e.sortOrder > emoji_entry.sortOrder)
    IN  before \o <<emoji_entry>> \o after

\* emojis.append(emoji_entry)
AppendEntry(list, emoji_entry) == Append(list, emoji_entry)

\* variant: the emoji is not recorded as seen
AddSeen_Forgets(seen, emoji_char) == seen

\* seen_emojis.add(emoji_char)
AddSeen(seen, emoji_char) == seen \cup {emoji_char}

(***************************************************************************)
(* The documents download_json can return.  raw_data is any list of at     *)
(* most MaxEntries entries of EntryPool, in any order; emojilib_data is    *)
(* any one of EmojilibPool.                                                *)
(***************************************************************************)
\* {"unified": "1F600", "name": "GRINNING FACE", "short_names": ["grinning"], ...}
EntryGrinning ==
    [unified |-> <<"1","F","6","0","0">>,
     name |-> <<"G","R","I","N","N","I","N","G"," ","F","A","C","E">>,
     short_names |-> <<<<"g","r","i","n","n","i","n","g">>>>,
     category |-> "Smileys & Emotion",
     sort_order |-> 1,
     has_img_apple |-> TRUE]

\* short names ["thumbs_up"]
EntryThumbs ==
    [unified |-> <<"1","F","4","4","D">>,
     name |-> <<"T","H","U","M","B","S"," ","U","P"," ","S","I","G","N">>,
     short_names |-> <<<<"t","h","u","m","b","s","_","u","p">>>>,
     category |-> "People & Body",
     sort_order |-> 3,
     has_img_apple |-> TRUE]

\* the glyph of EntryGrinning written in lower case; no category
EntryGrinLower ==
    [unified |-> <<"1","f","6","0","0">>,
     name |-> <<"G","r","i","n">>,
     short_names |-> <<<<"G","r","i","n">>, <<"g","r","i","n">>, <<"h","a","p","p","y">>>>,
     sort_order |-> 2,
     has_img_apple |-> TRUE]

\* the glyph of EntryThumbs without an Apple image
EntryNoImage ==
    [unified |-> <<"1","F","4","4","D">>,
     name |-> <<"N","O"," ","I","M","A","G","E">>,
     short_names |-> <<<<"n","o","_","i","m","g">>>>,
     category |-> "People & Body",
     sort_order |-> 4,
     has_img_apple |-> FALSE]

\* no has_img_apple key at all
EntryNoFlag ==
    [unified |-> <<"1","F","6","0","0">>,
     name |-> <<"N","O"," ","F","L","A","G">>]

\* a skin-tone variation, modifier in upper case
EntryTone ==
    [unified |-> <<"1","F","4","4","D","-","1","F","3","F","D">>,
     name |-> <<"T","O","N","E">>,
     short_names |-> <<<<"t","o","n","e">>>>,
     category |-> "People & Body",
     sort_order |-> 5,
     has_img_apple |-> TRUE]

\* a skin-tone variation, modifier in lower case
EntryToneLower ==
    [unified |-> <<"1","F","4","4","D","-","1","f","3","f","d">>,
     name |-> <<"T","O","N","E"," ","L","O","W","E","R">>,
     short_names |-> <<<<"t","o","n","e">>>>,
     category |-> "People & Body",
     sort_order |-> 6,
     has_img_apple |-> TRUE]

\* a segment that is no hexadecimal integer
EntryBadHex ==
    [unified |-> <<"Z","Z","Z","Z">>,
     name |-> <<"B","A","D"," ","H","E","X">>,
     short_names |-> <<<<"b","a","d">>>>,
     category |-> "Symbols",
     sort_order |-> 7,
     has_img_apple |-> TRUE]

\* a segment above the last code point
EntryOutOfRange ==
    [unified |-> <<"1","F","6","0","0","-","1","1","0","0","0","0">>,
     name |-> <<"O","U","T"," ","O","F"," ","R","A","N","G","E">>,
     short_names |-> <<<<"f","a","r">>>>,
     category |-> "Symbols",
     sort_order |-> 8,
     has_img_apple |-> TRUE]

\* two code points; a short name that is an emoticon; no category, no sort_order
EntryFlag ==
    [unified |-> <<"1","F","1","F","A","-","1","F","1","F","8">>,
     name |-> <<"U","S">>,
     short_names |-> <<<<":","D">>, <<"u","s">>>>,
     has_img_apple |-> TRUE]

\* only the keys the filter needs
EntryBare ==
    [unified |-> <<"2","7","6","4">>,
     has_img_apple |-> TRUE]

\* a lone surrogate: chr() returns it, the utf-8 codec refuses it
EntrySurrogate ==
    [unified |-> <<"D","8","3","D">>,
     name |-> <<"L","O","N","E">>,
     has_img_apple |-> TRUE]

\* 5: a number where an entry is documented
EntryNotDict == [__class__ |-> "int"]

\* {"unified": null, "name": "NULL", "has_img_apple": true}
EntryNullUnified ==
    [unified |-> None,
     name |-> <<"N","U","L","L">>,
     has_img_apple |-> TRUE]

\* {"unified": [], "has_img_apple": true}
EntryListUnified ==
    [unified |-> EmptyList,
     has_img_apple |-> TRUE]

\* the glyph of EntryGrinning with short names ["grin", null]
EntryNullShortName ==
    [unified |-> <<"1","F","6","0","0">>,
     name |-> <<"G","R","I","N">>,
     short_names |-> <<<<"g","r","i","n">>, None>>,
     has_img_apple |-> TRUE]

\* the glyph of EntryBare with the name null
EntryNullName ==
    [unified |-> <<"2","7","6","4">>,
     name |-> None,
     short_names |-> <<<<"h","e","a","r","t">>>>,
     has_img_apple |-> TRUE]

EntryPool ==
    {EntrySurrogate, EntryGrinning, EntryThumbs, EntryGrinLower, EntryNoImage, EntryNoFlag,
     EntryTone, EntryToneLower, EntryBadHex, EntryOutOfRange, EntryFlag,
     EntryBare,
     EntryNotDict, EntryNullUnified, EntryListUnified, EntryNullShortName, EntryNullName}

\* json.loads of the emoji-data document: a list of entries
RawDataChoices == UNION {[1..n -> EntryPool] : n \in 0..MaxEntries}

\* the glyphs the emojilib documents have keys for
GlyphGrinning == <<128512>>
GlyphThumbs   == <<128077>>
GlyphFlag     == <<127482, 127480>>

\* an emojilib document with emoticons, duplicates and a one-entry list
EmojilibRich ==
    (GlyphGrinning :> <<<<"g","r","i","n","n","i","n","g","_","f","a","c","e">>, <<"h","a","p","p","y">>, <<":","D">>, <<"j","o","y">>, <<"H","a","p","p","y">>, <<";",")">>, <<"g","r","i","n","n","i","n","g">>>>) @@
    (GlyphThumbs :> <<<<"t","h","u","m","b","s"," ","u","p"," ","s","i","g","n">>, <<"l","i","k","e">>, <<"t","h","u","m","b","s","_","u","p">>, <<"a","p","p","r","o","v","e">>>>) @@
    (GlyphFlag :> <<<<"u","n","i","t","e","d","_","s","t","a","t","e","s">>>>)

\* {}
EmojilibEmpty == [g \in {} |-> <<>>]

\* {"\U0001F44D": ["thumbs up sign", null]}
EmojilibNullKeyword ==
    (GlyphThumbs :> <<<<"t","h","u","m","b","s"," ","u","p"," ","s","i","g","n">>, None>>)

\* a list where the emojilib object is documented
EmojilibList == (NoGlyph :> <<>>)

\* json.loads of the emojilib document
EmojilibPool == {EmojilibRich, EmojilibEmpty, EmojilibNullKeyword, EmojilibList}

(***************************************************************************)
(* State.                                                                  *)
(*   pc            where main is: "fetch_emoji_data", "fetch_emojilib",    *)
(*                 "build", "loop", "write" (lines 176-212, the report and *)
(*                 the write), "done", or "failed" after an exception that *)
(*                 main does not catch                                     *)
(*   raw_data, emojilib_data   the two downloaded documents                *)
(*   idx           position of the for loop in raw_data                    *)
(*   emojis, seen_emojis       the locals of build_emoji_list              *)
(*   origin        for each element of emojis, the index in raw_data of    *)
(*                 the entry it was built from (history only)              *)
(*   fetches       for each URL, the outcomes ("ok" or "error") of the     *)
(*                 urlopen calls made for it, in order                     *)
(*   output_file   OUTPUT_PATH: whether it exists, how often it has been   *)
(*                 opened for writing, the records whose JSON text it      *)
(*                 holds in full, and whether that text is complete        *)
(*                                                                         *)
(* Exceptions.  main catches nothing and build_emoji_list catches only     *)
(* ValueError and OverflowError around hex_to_emoji, so every other        *)
(* statement that can raise ends the run: the prints before and between    *)
(* the downloads (a closed pipe, a full device), the downloads, the        *)
(* statements of the loop that meet a value of another type than the       *)
(* documented one (lines 95, 104, 109, 123, 130-131, 137-139, 147), the    *)
(* category report, mkdir and open, json.dump, and the report after the    *)
(* write.  A raise inside the loop leaves idx at the entry that raised.    *)
(* The documents are sized: a document that is null or a number makes      *)
(* len() raise at line 168 or 171, where PrintEmojiDataFails and           *)
(* PrintEmojilibFails end the run.                                         *)
(***************************************************************************)
\* OUTPUT_PATH before the run: no file yet, never opened for writing
FileAbsent == [exists |-> FALSE, writes |-> 0, content |-> <<>>, complete |-> FALSE]

Init ==
    /\ pc = "fetch_emoji_data"
    /\ raw_data = <<>>
    /\ emojilib_data = EmojilibEmpty
    /\ idx = 1
    /\ emojis = <<>>
    /\ seen_emojis = {}
    /\ origin = <<>>
    /\ fetches = [emoji_data |-> <<>>, emojilib |-> <<>>]
    /\ output_file = FileAbsent

(***************************************************************************)
(* main: the banner and the two downloads                                  *)
(***************************************************************************)
\* a print of lines 161-164, or the print of download_json (line 39) for
\* EMOJI_DATA_URL, raises: no urlopen call has been made
PrintBannerFails ==
    /\ pc = "fetch_emoji_data"
    /\ pc' = "failed"
    /\ UNCHANGED <<raw_data, emojilib_data, idx, emojis, seen_emojis, origin,
                   fetches, output_file>>

\* the print of line 168 (or its len(raw_data)), or the print of
\* download_json (line 39) for EMOJILIB_URL, raises: EMOJILIB_URL is never
\* requested
PrintEmojiDataFails ==
    /\ pc = "fetch_emojilib"
    /\ pc' = "failed"
    /\ UNCHANGED <<raw_data, emojilib_data, idx, emojis, seen_emojis, origin,
                   fetches, output_file>>

\* a print of lines 171-172 (or len(emojilib_data)) raises: both downloads
\* have returned and build_emoji_list is never called
PrintEmojilibFails ==
    /\ pc = "build"
    /\ pc' = "failed"
    /\ UNCHANGED <<raw_data, emojilib_data, idx, emojis, seen_emojis, origin,
                   fetches, output_file>>

\* raw_data = download_json(EMOJI_DATA_URL) returns
DownloadEmojiData ==
    /\ pc = "fetch_emoji_data"
    /\ fetches' = [fetches EXCEPT !.emoji_data = Append(@, "ok")]
    /\ \E data \in RawDataChoices : raw_data' = data
    /\ pc' = "fetch_emojilib"
    /\ UNCHANGED <<emojilib_data, idx, emojis, seen_emojis, origin, output_file>>

\* download_json(EMOJI_DATA_URL) raises (network, HTTP status, JSON)
DownloadEmojiDataFails ==
    /\ pc = "fetch_emoji_data"
    /\ fetches' = [fetches EXCEPT !.emoji_data = Append(@, "error")]
    /\ pc' = "failed"
    /\ UNCHANGED <<raw_data, emojilib_data, idx, emojis, seen_emojis, origin, output_file>>

\* emojilib_data = download_json(EMOJILIB_URL) returns
DownloadEmojilib ==
    /\ pc = "fetch_emojilib"
    /\ fetches' = [fetches EXCEPT !.emojilib = Append(@, "ok")]
    /\ \E data \in EmojilibPool : emojilib_data' = data
    /\ pc' = "build"
    /\ UNCHANGED <<raw_data, idx, emojis, seen_emojis, origin, output_file>>

\* variant: the exception is swallowed and main goes on with no keywords
DownloadEmojilibFails_Swallowed ==
    /\ pc = "fetch_emojilib"
    /\ fetches' = [fetches EXCEPT !.emojilib = Append(@, "error")]
    /\ emojilib_data' = EmojilibEmpty
    /\ pc' = "build"
    /\ UNCHANGED <<raw_data, idx, emojis, seen_emojis, origin, output_file>>

\* download_json(EMOJILIB_URL) raises
DownloadEmojilibFails ==
    /\ pc = "fetch_emojilib"
    /\ fetches' = [fetches EXCEPT !.emojilib = Append(@, "error")]
    /\ pc' = "failed"
    /\ UNCHANGED <<raw_data, emojilib_data, idx, emojis, seen_emojis, origin, output_file>>

(***************************************************************************)
(* build_emoji_list: one action per way through the loop body              *)
(***************************************************************************)
\* emojis = []; seen_emojis = set()
BuildStart ==
    /\ pc = "build"
    /\ emojis' = <<>>
    /\ seen_emojis' = {}
    /\ origin' = <<>>
    /\ idx' = 1
    /\ pc' = "loop"
    /\ UNCHANGED <<raw_data, emojilib_data, fetches, output_file>>

\* the for loop has an entry to process
InLoop == pc = "loop" /\ idx <= Len(raw_data)

\* continue
Continue ==
    /\ idx' = idx + 1
    /\ UNCHANGED <<pc, raw_data, emojilib_data, emojis, seen_emojis, origin,
                   fetches, output_file>>

\* an exception that nothing catches leaves build_emoji_list and main
Raise ==
    /\ pc' = "failed"
    /\ UNCHANGED <<raw_data, emojilib_data, idx, emojis, origin, fetches, output_file>>

\* entry.get("has_img_apple", False) raises AttributeError: entry is no dict
EntryGetRaises ==
    /\ InLoop
    /\ ~IsDict(raw_data[idx])
    /\ Raise
    /\ UNCHANGED seen_emojis

\* variant: the emoji is recorded as seen before the image test rejects it
SkipNoImage_MarksSeen ==
    /\ InLoop
    /\ IsDict(raw_data[idx])
    /\ ~HasImgApple(raw_data[idx])
    /\ seen_emojis' = IF SplitRaises(Unified(raw_data[idx]))
                      THEN seen_emojis
                      ELSE IF HexToEmojiRaises(Unified(raw_data[idx]))
                      THEN seen_emojis
                      ELSE seen_emojis \cup {HexToEmoji(Unified(raw_data[idx]))}
    /\ idx' = idx + 1
    /\ UNCHANGED <<pc, raw_data, emojilib_data, emojis, origin, fetches, output_file>>

\* if not entry.get("has_img_apple", False): continue
SkipNoImage ==
    /\ InLoop
    /\ IsDict(raw_data[idx])
    /\ ~HasImgApple(raw_data[idx])
    /\ Continue

\* the entry has an Apple image
HasImage ==
    /\ InLoop
    /\ IsDict(raw_data[idx])
    /\ HasImgApple(raw_data[idx])

\* any(mod in unified ...) raises TypeError
SkinToneRaises ==
    /\ HasImage
    /\ SkinToneTestRaises(Unified(raw_data[idx]))
    /\ Raise
    /\ UNCHANGED seen_emojis

\* if any(mod in unified ...): continue
SkipSkinTone ==
    /\ HasImage
    /\ ~SkinToneTestRaises(Unified(raw_data[idx]))
    /\ HasSkinToneModifier(Unified(raw_data[idx]))
    /\ Continue

\* the entry reaches hex_to_emoji
AtDecode ==
    /\ HasImage
    /\ ~SkinToneTestRaises(Unified(raw_data[idx]))
    /\ ~HasSkinToneModifier(Unified(raw_data[idx]))

\* hex_to_emoji raises an exception that is neither ValueError nor
\* OverflowError
DecodeRaises ==
    /\ HasImage
    /\ SplitRaises(Unified(raw_data[idx]))
    /\ AtDecode
    /\ Raise
    /\ UNCHANGED seen_emojis

\* variant: the exception is not caught and ends the run
SkipInvalid_Aborts ==
    /\ AtDecode
    /\ ~SplitRaises(Unified(raw_data[idx]))
    /\ HexToEmojiRaises(Unified(raw_data[idx]))
    /\ pc' = "failed"
    /\ UNCHANGED <<raw_data, emojilib_data, idx, emojis, seen_emojis, origin,
                   fetches, output_file>>

\* except (ValueError, OverflowError): continue
SkipInvalid ==
    /\ AtDecode
    /\ ~SplitRaises(Unified(raw_data[idx]))
    /\ HexToEmojiRaises(Unified(raw_data[idx]))
    /\ Continue

\* the entry reaches the duplicate test with its emoji decoded
Decoded ==
    /\ AtDecode
    /\ ~SplitRaises(Unified(raw_data[idx]))
    /\ ~HexToEmojiRaises(Unified(raw_data[idx]))

\* if emoji_char in seen_emojis: continue
SkipDuplicate ==
    /\ Decoded
    /\ HexToEmoji(Unified(raw_data[idx])) \in seen_emojis
    /\ Continue

\* the entry is new: seen_emojis.add(emoji_char) is executed
NewEmoji(emoji_char) ==
    /\ emoji_char \notin seen_emojis
    /\ seen_emojis' = AddSeen(seen_emojis, emoji_char)

\* emojilib_data.get(emoji_char, []) raises AttributeError: emojilib_data is
\* no dict
EmojilibGetRaises ==
    /\ pc = "loop"
    /\ ~IsMapping(emojilib_data)
    /\ Decoded
    /\ NewEmoji(HexToEmoji(Unified(raw_data[idx])))
    /\ Raise

\* the loop over short_names raises
ShortNamesRaise ==
    /\ HasImage
    /\ IsMapping(emojilib_data)
    /\ ShortNamesLoopRaises(Get(raw_data[idx], "short_names", <<>>))
    /\ Decoded
    /\ NewEmoji(HexToEmoji(Unified(raw_data[idx])))
    /\ Raise

\* the loop over the emojilib keywords raises
EmojilibKeywordsRaise ==
    /\ HasImage
    /\ IsMapping(emojilib_data)
    /\ ~ShortNamesLoopRaises(Get(raw_data[idx], "short_names", <<>>))
    /\ Decoded
    /\ LET emoji_char == HexToEmoji(Unified(raw_data[idx]))
       IN  /\ EmojilibLoopRaises(Get(emojilib_data, emoji_char, <<>>))
           /\ NewEmoji(emoji_char)
    /\ Raise

\* building emoji_entry raises at the name
EmojiEntryRaises ==
    /\ HasImage
    /\ IsMapping(emojilib_data)
    /\ ~ShortNamesLoopRaises(Get(raw_data[idx], "short_names", <<>>))
    /\ NameRaises(raw_data[idx])
    /\ Decoded
    /\ LET emoji_char == HexToEmoji(Unified(raw_data[idx]))
       IN  /\ ~EmojilibLoopRaises(Get(emojilib_data, emoji_char, <<>>))
           /\ NewEmoji(emoji_char)
    /\ Raise

\* seen_emojis.add(emoji_char); ...; emojis.append(emoji_entry)
EmitEntry ==
    /\ HasImage
    /\ IsMapping(emojilib_data)
    /\ ~ShortNamesLoopRaises(Get(raw_data[idx], "short_names", <<>>))
    /\ ~NameRaises(raw_data[idx])
    /\ Decoded
    /\ LET emoji_char == HexToEmoji(Unified(raw_data[idx]))
       IN  /\ ~EmojilibLoopRaises(Get(emojilib_data, emoji_char, <<>>))
           /\ NewEmoji(emoji_char)
           /\ emojis' = AppendEntry(emojis, EmojiEntry(raw_data[idx], emoji_char, emojilib_data))
    /\ origin' = Append(origin, idx)
    /\ idx' = idx + 1
    /\ UNCHANGED <<pc, raw_data, emojilib_data, fetches, output_file>>

\* return emojis
BuildReturn ==
    /\ pc = "loop"
    /\ idx > Len(raw_data)
    /\ pc' = "write"
    /\ UNCHANGED <<raw_data, emojilib_data, idx, emojis, seen_emojis, origin,
                   fetches, output_file>>

(***************************************************************************)
(* main: the report and the write                                          *)
(***************************************************************************)
\* the code points chr() returns that the utf-8 codec refuses: U+D800..U+DFFF
Surrogates == 55296..57343

\* json.dump(emojis, f, ensure_ascii=False) meets a character it cannot encode
\* (the other strings of a record hold characters up to U+00FF only)
Unencodable(emoji_entry) ==
    \E n \in 1..Len(emoji_entry.emoji) : emoji_entry.emoji[n] \in Surrogates

\* the number of leading records json.dump can write in full
Encodable(list) ==
    IF \E k \in 1..Len(list) : Unencodable(list[k])
    THEN (CHOOSE k \in 1..Len(list) :
             Unencodable(list[k]) /\ \A h \in 1..(k - 1) : ~Unencodable(list[h])) - 1
    ELSE Len(list)

\* a print of the category report, mkdir or open raises: nothing is written
PrepareFails ==
    /\ pc = "write"
    /\ pc' = "failed"
    /\ UNCHANGED <<raw_data, emojilib_data, idx, emojis, seen_emojis, origin,
                   fetches, output_file>>

\* open(OUTPUT_PATH, "w") has created or emptied the file and json.dump (or
\* the close) raises: the file holds the text of some leading records, at
\* most those before the first record that cannot be encoded
WriteOutputFails ==
    /\ pc = "write"
    /\ \E k \in 0..Encodable(emojis) :
          output_file' = [exists |-> TRUE,
                          writes |-> output_file.writes + 1,
                          content |-> SubSeq(emojis, 1, k),
                          complete |-> FALSE]
    /\ pc' = "failed"
    /\ UNCHANGED <<raw_data, emojilib_data, idx, emojis, seen_emojis, origin, fetches>>

\* the file is written in full, then stat or a print of lines 198-212 raises
ReportFails ==
    /\ pc = "write"
    /\ Encodable(emojis) = Len(emojis)
    /\ output_file' = [exists |-> TRUE,
                       writes |-> output_file.writes + 1,
                       content |-> emojis,
                       complete |-> TRUE]
    /\ pc' = "failed"
    /\ UNCHANGED <<raw_data, emojilib_data, idx, emojis, seen_emojis, origin, fetches>>

\* with open(OUTPUT_PATH, "w", ...) as f: json.dump(emojis, f, ...), and the
\* rest of main
WriteOutput ==
    /\ pc = "write"
    /\ Encodable(emojis) = Len(emojis)
    /\ output_file' = [exists |-> TRUE,
                       writes |-> output_file.writes + 1,
                       content |-> emojis,
                       complete |-> TRUE]
    /\ pc' = "done"
    /\ UNCHANGED <<raw_data, emojilib_data, idx, emojis, seen_emojis, origin, fetches>>

Next ==
    \/ PrintBannerFails
    \/ DownloadEmojiData
    \/ DownloadEmojiDataFails
    \/ PrintEmojiDataFails
    \/ DownloadEmojilib
    \/ DownloadEmojilibFails
    \/ PrintEmojilibFails
    \/ BuildStart
    \/ EntryGetRaises
    \/ SkipNoImage
    \/ SkinToneRaises
    \/ SkipSkinTone
    \/ DecodeRaises
    \/ SkipInvalid
    \/ SkipDuplicate
    \/ EmojilibGetRaises
    \/ ShortNamesRaise
    \/ EmojilibKeywordsRaise
    \/ EmojiEntryRaises
    \/ EmitEntry
    \/ BuildReturn
    \/ PrepareFails
    \/ WriteOutputFails
    \/ ReportFails
    \/ WriteOutput

Spec == Init /\ [][Next]_vars

(***************************************************************************)
(* Vocabulary of the properties.  These describe the source records and    *)
(* the expected output without reference to how the loop computes them.    *)
(***************************************************************************)
\* indices of raw_data the loop has finished with
Processed == 1..(idx - 1)

\* the run has left build_emoji_list
Built == pc \in {"write", "done"}

\* a download has raised
FetchFailed == \E u \in DOMAIN fetches : "error" \in Range(fetches[u])

\* indices of raw_data whose records are in the output
Emitted == Range(origin)

\* the code points of the five skin-tone modifiers, U+1F3FB .. U+1F3FF
SkinToneCodePoints == 127995..127999

\* for each source record, whether it passes the image and skin-tone tests
\* and its unified decodes, and the glyph it then decodes to
Decoding ==
    [entry \in EntryPool |->
        IF /\ "has_img_apple" \in DOMAIN entry
           /\ entry.has_img_apple
           /\ IsStr(Unified(entry))
           /\ ~HasSkinToneModifier(Unified(entry))
           /\ ~HexToEmojiRaises(Unified(entry))
        THEN [decodes |-> TRUE, glyph |-> HexToEmoji(Unified(entry))]
        ELSE [decodes |-> FALSE, glyph |-> <<>>]]

\* the source records whose unified is a string with a segment that is no
\* hexadecimal integer or no code point
Undecodable ==
    {entry \in EntryPool : IsDict(entry) /\ IsStr(Unified(entry))
                                         /\ HexToEmojiRaises(Unified(entry))}

\* the source records the filter rejects: no Apple image, a skin-tone
\* modifier in unified, or a unified that does not decode
Filtered ==
    {entry \in EntryPool :
        /\ IsDict(entry)
        /\ \/ "has_img_apple" \notin DOMAIN entry
           \/ ~entry.has_img_apple
           \/ /\ IsStr(Unified(entry))
              /\ \/ \E mod \in SkinToneModifiers : Contains(Unified(entry), mod)
                 \/ entry \in Undecodable}

\* the source records all of whose values have the documented types
DocumentedEntries ==
    {entry \in EntryPool :
        /\ IsDict(entry)
        /\ IsStr(Unified(entry))
        /\ IsStr(Get(entry, "name", <<>>))
        /\ \A kw \in Range(Get(entry, "short_names", <<>>)) : IsStr(kw)}

\* the emojilib documents all of whose values have the documented types
DocumentedEmojilibs ==
    {lib \in EmojilibPool :
        /\ IsMapping(lib)
        /\ \A g \in DOMAIN lib : \A kw \in Range(lib[g]) : IsStr(kw)}

\* for each source record, its name in lower case
LowerName == [entry \in EntryPool |-> Lower(Get(entry, "name", <<>>))]

\* the record passes the image and skin-tone tests and its unified decodes
Decodes(entry) == Decoding[entry].decodes

\* the glyph of a record that decodes
GlyphOf(entry) == Decoding[entry].glyph

\* record i decodes, and no earlier record decodes to its glyph
Eligible(i) ==
    /\ Decodes(raw_data[i])
    /\ \A j \in 1..(i - 1) :
          Decodes(raw_data[j]) => GlyphOf(raw_data[j]) # GlyphOf(raw_data[i])

\* the elements of a set of indices in ascending order
Ascending(S) ==
    LET f[n \in 0..Len(raw_data)] ==
            IF n = 0 THEN <<>>
            ELSE IF n \in S THEN Append(f[n - 1], n) ELSE f[n - 1]
    IN  f[Len(raw_data)]

\* s without the elements that repeat an earlier element
FirstOccurrences(s) ==
    LET f[n \in 0..Len(s)] ==
            IF n = 0 THEN <<>>
            ELSE IF \E m \in 1..(n - 1) : s[m] = s[n] THEN f[n - 1]
            ELSE Append(f[n - 1], s[n])
    IN  f[Len(s)]

\* the reference merge: normalized short names, then the normalized emojilib
\* entries after the first that are no emoticons, first occurrences only
ReferenceMerge(short_names, emojilib_keywords) ==
    LET rest   == SubSeq(emojilib_keywords, 2, Len(emojilib_keywords))
        words  == SelectSeq(rest, LAMBDA kw : kw = <<>> \/ kw[1] \notin {":", ";"})
        all    == short_names \o words
    IN  FirstOccurrences([n \in 1..Len(all) |-> Clean(all[n])])

\* for each source record that decodes and each emojilib document, the
\* reference merge of the record's short names and the entry of its glyph
ReferenceKeywords ==
    [entry \in {e \in EntryPool : Decodes(e)}, lib \in EmojilibPool |->
        ReferenceMerge(Get(entry, "short_names", <<>>), Get(lib, GlyphOf(entry), <<>>))]

\* for each source record, its normalized short names, first occurrences only
ShortNameKeywords ==
    [entry \in EntryPool |->
        LET short_names == Get(entry, "short_names", <<>>)
        IN  FirstOccurrences([n \in 1..Len(short_names) |-> Clean(short_names[n])])]

NoDuplicates(s) == \A m, n \in 1..Len(s) : m # n => s[m] # s[n]

(***************************************************************************)
(* Properties                                                              *)
(***************************************************************************)
\* C1: the glyphs of the output records are pairwise distinct, and of two
\* source records that decode to the same glyph only the first is in the
\* output.
C1_DistinctGlyphsFirstWins ==
    /\ \A m, n \in 1..Len(emojis) : m # n => emojis[m].emoji # emojis[n].emoji
    /\ \A i, j \in Processed :
          (i < j /\ Decodes(raw_data[i]) /\ Decodes(raw_data[j])
                 /\ GlyphOf(raw_data[i]) = GlyphOf(raw_data[j]))
          => j \notin Emitted
    /\ Built =>
          \A i, j \in Processed :
             (i < j /\ Eligible(i) /\ Decodes(raw_data[j])
                    /\ GlyphOf(raw_data[i]) = GlyphOf(raw_data[j]))
             => i \in Emitted

\* two records written differently decode to one glyph; the first is in the
\* output and the second is not
C1_Witness ==
    /\ pc = "done"
    /\ \E i, j \in Processed :
          /\ i < j
          /\ Decodes(raw_data[i]) /\ Decodes(raw_data[j])
          /\ Unified(raw_data[i]) # Unified(raw_data[j])
          /\ GlyphOf(raw_data[i]) = GlyphOf(raw_data[j])
          /\ i \in Emitted /\ j \notin Emitted

\* C2: the output is the source sequence, in its order, restricted to the
\* eligible records; nothing is sorted, so an input ascending in sort_order
\* gives an output ascending in sortOrder and an unsorted input keeps its
\* relative order.
C2_OrderPreserved ==
    /\ origin = Ascending({i \in Processed : Eligible(i)})
    /\ Len(emojis) = Len(origin)
    /\ \A k \in 1..Len(emojis) :
          /\ emojis[k].emoji = GlyphOf(raw_data[origin[k]])
          /\ emojis[k].sortOrder = Get(raw_data[origin[k]], "sort_order", DefaultSortOrder)
          /\ emojis[k].name = LowerName[raw_data[origin[k]]]
    /\ (\A i, j \in 1..Len(raw_data) :
           i < j => Get(raw_data[i], "sort_order", DefaultSortOrder)
                    <= Get(raw_data[j], "sort_order", DefaultSortOrder))
       => \A m, n \in 1..Len(emojis) : m < n => emojis[m].sortOrder <= emojis[n].sortOrder

\* an input that is not in sort_order order comes out in the same order
C2_Witness ==
    /\ pc = "done"
    /\ Len(emojis) = MaxEntries
    /\ \E k \in 1..(Len(emojis) - 1) : emojis[k].sortOrder > emojis[k + 1].sortOrder
    /\ origin = Ascending(1..MaxEntries)

\* C3: no output glyph contains a skin-tone modifier character, whatever the
\* letter case or leading zeros of the hex segments of unified.
C3_NoSkinToneInOutput ==
    \A k \in 1..Len(emojis) :
       \A n \in 1..Len(emojis[k].emoji) : emojis[k].emoji[n] \notin SkinToneCodePoints

\* C4: a source record whose has_img_apple is false or absent is never in
\* the output, whatever precedes or follows it.
C4_NoImageNeverEmitted ==
    \A i \in Emitted :
       "has_img_apple" \in DOMAIN raw_data[i] /\ raw_data[i].has_img_apple = TRUE

\* a record without the flag is passed over and the record after it, which
\* has the same glyph and a true flag, is the only one emitted
C4_Witness ==
    /\ pc = "done"
    /\ \E i \in Processed :
          /\ "has_img_apple" \notin DOMAIN raw_data[i]
          /\ IsStr(Unified(raw_data[i])) /\ ~HexToEmojiRaises(Unified(raw_data[i]))
          /\ \E h \in Emitted :
                /\ h > i
                /\ GlyphOf(raw_data[h]) = HexToEmoji(Unified(raw_data[i]))
    /\ Len(emojis) = 1

\* the loop is at a record that has an image and no skin-tone modifier and
\* whose unified has a segment that is no hexadecimal integer or no code point
AtDecodeFailure ==
    /\ InLoop
    /\ raw_data[idx] \in Undecodable
    /\ "has_img_apple" \in DOMAIN raw_data[idx]
    /\ raw_data[idx].has_img_apple
    /\ \A mod \in SkinToneModifiers : ~Contains(Unified(raw_data[idx]), mod)

\* C5: a record whose unified does not decode is skipped: it is never in the
\* output, the step at it goes on to the next record with the output
\* unchanged and does not end the run, and every eligible record the loop
\* has passed is emitted.  The loop ends the run only at a record, or with
\* an emojilib document, that holds a value of another type than the
\* documented one; otherwise it processes every record.
C5_DecodeFailureSkipped ==
    /\ [](/\ \A i \in Processed :
                raw_data[i] \in Undecodable => i \notin Emitted
          /\ \A j \in Processed : Eligible(j) => j \in Emitted
          /\ Built => Processed = 1..Len(raw_data))
    /\ [][AtDecodeFailure =>
             (pc' = "loop" /\ idx' = idx + 1 /\ emojis' = emojis /\ origin' = origin)]_vars
    /\ [][(pc = "loop" /\ pc' = "failed") =>
             (/\ idx <= Len(raw_data)
              /\ \/ raw_data[idx] \notin DocumentedEntries
                 \/ emojilib_data \notin DocumentedEmojilibs)]_vars

\* a record with a non-hexadecimal or an out-of-range segment is skipped and
\* a record after it is emitted
C5_Witness ==
    /\ pc = "done"
    /\ \E i, h \in Processed :
          /\ i < h
          /\ Unified(raw_data[i]) \in {Unified(EntryBadHex), Unified(EntryOutOfRange)}
          /\ HasImgApple(raw_data[i])
          /\ i \notin Emitted
          /\ h \in Emitted

\* C6: the keywords of every output record are the reference merge of the
\* record's short names and the emojilib entry of its glyph; they have no
\* duplicates; short names ["thumbs_up"] with the emojilib entry
\* ["thumbs up sign", "like", "thumbs_up", "approve"] give
\* ["thumbs up", "like", "approve"].
C6_KeywordsAreReferenceMerge ==
    \A k \in 1..Len(emojis) :
       LET short_names == Get(raw_data[origin[k]], "short_names", <<>>)
           keywords    == Get(emojilib_data, emojis[k].emoji, <<>>)
       IN  /\ emojis[k].keywords = ReferenceKeywords[raw_data[origin[k]], emojilib_data]
           /\ NoDuplicates(emojis[k].keywords)
           /\ (/\ short_names = <<<<"t","h","u","m","b","s","_","u","p">>>>
               /\ keywords = <<<<"t","h","u","m","b","s"," ","u","p"," ","s","i","g","n">>, <<"l","i","k","e">>, <<"t","h","u","m","b","s","_","u","p">>, <<"a","p","p","r","o","v","e">>>>)
              => emojis[k].keywords = <<<<"t","h","u","m","b","s"," ","u","p">>, <<"l","i","k","e">>, <<"a","p","p","r","o","v","e">>>>

\* the thumbs-up example is built, and so is a record whose emojilib entry
\* holds emoticons and repeats
C6_Witness ==
    /\ pc = "done"
    /\ \E k \in 1..Len(emojis) :
          /\ raw_data[origin[k]] = EntryThumbs
          /\ emojilib_data = EmojilibRich
          /\ emojis[k].keywords = <<<<"t","h","u","m","b","s"," ","u","p">>, <<"l","i","k","e">>, <<"a","p","p","r","o","v","e">>>>
    /\ \E k \in 1..Len(emojis) :
          /\ raw_data[origin[k]] = EntryGrinLower
          /\ Len(emojis[k].keywords) = 4

\* C7: no element of keywords of any output record starts with a colon or
\* a semicolon, whichever source it came from.
C7_NoEmoticonKeyword ==
    \A k \in 1..Len(emojis) :
       \A n \in 1..Len(emojis[k].keywords) :
          LET kw == emojis[k].keywords[n]
          IN  kw = <<>> \/ kw[1] \notin {":", ";"}

\* every output record has the five fields, with the defaults where the
\* source record lacks the field, and every eligible record the loop has
\* passed is in the output
C8_Defaults ==
    /\ \A k \in 1..Len(emojis) :
          LET entry == raw_data[origin[k]]
          IN  /\ DOMAIN emojis[k] = {"emoji", "name", "keywords", "category", "sortOrder"}
              /\ "category" \notin DOMAIN entry => emojis[k].category = "Other"
              /\ "category" \in DOMAIN entry => emojis[k].category = entry.category
              /\ "sort_order" \notin DOMAIN entry => emojis[k].sortOrder = 9999
              /\ "sort_order" \in DOMAIN entry => emojis[k].sortOrder = entry.sort_order
              /\ emojis[k].emoji \notin DOMAIN emojilib_data =>
                    emojis[k].keywords = ShortNameKeywords[entry]
              /\ "short_names" \notin DOMAIN entry /\ emojis[k].emoji \notin DOMAIN emojilib_data
                    => emojis[k].keywords = <<>>
    /\ \A i \in Processed :
          (Eligible(i) /\ {"category", "sort_order", "short_names", "name"} \ DOMAIN raw_data[i] # {})
          => i \in Emitted

\* C8: a missing optional field is replaced by its default and the record
\* is still emitted: category "Other", sortOrder 9999, keywords from the
\* short names alone; every output record has the five fields.  The step at
\* an eligible record emits it and does not end the run, whichever optional
\* fields are absent, when the values that are present have the documented
\* types.
C8_DefaultsSubstituted ==
    /\ [][(/\ InLoop
           /\ Eligible(idx)
           /\ raw_data[idx] \in DocumentedEntries
           /\ emojilib_data \in DocumentedEmojilibs)
          => (pc' = "loop" /\ idx' = idx + 1 /\ origin' = Append(origin, idx))]_vars
    /\ [] C8_Defaults

\* a record with only unified and the flag is emitted with every default
C8_Witness ==
    /\ pc = "done"
    /\ \E k \in 1..Len(emojis) :
          /\ DOMAIN raw_data[origin[k]] = {"unified", "has_img_apple"}
          /\ emojis[k].category = "Other"
          /\ emojis[k].sortOrder = 9999
          /\ emojis[k].keywords = <<>>
    /\ \E k \in 1..Len(emojis) :
          /\ "category" \notin DOMAIN raw_data[origin[k]]
          /\ "sort_order" \in DOMAIN raw_data[origin[k]]
          /\ emojis[k].keywords # <<>>

\* the file at OUTPUT_PATH is as the run found it
FileUntouched == output_file = FileAbsent

\* C9: the output file is written only after both downloads have succeeded
\* and build_emoji_list has returned; when a download fails the run stops
\* before the transformation, the file is neither created nor modified, and
\* no download is tried again.
C9_FetchErrorLeavesNoOutput ==
    /\ [](/\ ~FileUntouched =>
                /\ pc \in {"done", "failed"}
                /\ fetches = [emoji_data |-> <<"ok">>, emojilib |-> <<"ok">>]
                /\ idx = Len(raw_data) + 1
                /\ output_file.writes = 1
                /\ \E k \in 0..Len(emojis) : output_file.content = SubSeq(emojis, 1, k)
                /\ pc = "done" => (output_file.complete /\ output_file.content = emojis)
          /\ FetchFailed =>
                /\ pc = "failed"
                /\ FileUntouched
                /\ idx = 1 /\ emojis = <<>> /\ seen_emojis = {}
          /\ \A u \in DOMAIN fetches : Len(fetches[u]) <= 1)
    /\ [][pc # "write" => output_file' = output_file]_vars

\* the second download failed after the first succeeded, and there is
\* still no file
C9_Witness ==
    /\ pc = "failed"
    /\ fetches = [emoji_data |-> <<"ok">>, emojilib |-> <<"error">>]
    /\ Len(raw_data) >= 1
    /\ ~output_file.exists /\ output_file.writes = 0

\* the record the loop is at is rejected
Rejected ==
    /\ InLoop
    /\ \/ raw_data[idx] \in Filtered
       \/ /\ Decodes(raw_data[idx])
          /\ \E k \in 1..Len(emojis) : emojis[k].emoji = GlyphOf(raw_data[idx])

\* the glyphs of the records emitted so far
EmittedGlyphs == {emojis[k].emoji : k \in 1..Len(emojis)}

\* C10: after any prefix of the source has been processed (the loop is
\* between two records, or has returned), seen_emojis is exactly the set of
\* glyphs emitted so far; a run that an exception ended inside a record has
\* at most the glyph of that record in seen_emojis besides.  A rejected
\* record (no image, skin-tone modifier, decode failure, duplicate) changes
\* neither emojis nor seen_emojis, and so never keeps a later eligible
\* record with the same glyph out.
C10_SeenIsEmittedGlyphs ==
    /\ [](/\ pc # "failed" => seen_emojis = EmittedGlyphs
          /\ pc = "failed" =>
                \/ seen_emojis = EmittedGlyphs
                \/ /\ idx <= Len(raw_data)
                   /\ Eligible(idx)
                   /\ seen_emojis = EmittedGlyphs \cup {GlyphOf(raw_data[idx])}
          /\ \A j \in Processed : Eligible(j) => j \in Emitted)
    /\ [][Rejected => (emojis' = emojis /\ seen_emojis' = seen_emojis /\ idx' = idx + 1)]_vars

\* a record with a false flag is rejected, and a later record with the same
\* glyph is emitted
C10_Witness ==
    /\ pc = "done"
    /\ \E i, j \in Processed :
          /\ i < j
          /\ "has_img_apple" \in DOMAIN raw_data[i] /\ ~raw_data[i].has_img_apple
          /\ ~HexToEmojiRaises(Unified(raw_data[i]))
          /\ Decodes(raw_data[j])
          /\ HexToEmoji(Unified(raw_data[i])) = GlyphOf(raw_data[j])
          /\ j \in Emitted
    /\ seen_emojis # {}

====
